---- MODULE Spec2Model ----
(***************************************************************************)
(* Model of the EigenTrust set of circuit/src/native.rs: the fixed-size    *)
(* participant set, the opinion map and the converge computation (filter   *)
(* followed by NUM_ITERATIONS aggregation steps in the scalar field).       *)
(* and of the peer of eigen-trust/src/peer/mod.rs: its neighbor slots, its *)
(* opinion caches and the trust score it computes from its neighbors.      *)
(***************************************************************************)
EXTENDS Integers, Sequences, FiniteSets, TLC

\* ---------------------------------------------------------------- constants
NUM_NEIGHBOURS == 6
NUM_ITERATIONS == 20
INITIAL_SCORE == 1000

\* Fr is the bn256 scalar field.  Its 254-bit modulus is replaced by the
\* largest prime whose square fits the model checker's integers; every
\* operation below reduces modulo it, as Fr does modulo its own prime.
FieldModulus == 46337

\* ------------------------------------------------------------------- bounds
\* number of distinct non-default public keys offered to the set in Spec
NumKeys == 2
\* number of peers that connect to the peer beside those filling its slots
NumPeers == 2
\* the last epoch for which opinions are cached
MaxEpoch == 1
\* number of calls that may follow a completed converge
MaxAfter == 1
\* number of iterations of an epoch of the node
NumIters == 2
\* number of swarm events that may wait to be taken
MaxQueue == 1
\* number of swarm events that reach a node driven directly
MaxEvents == 2

\* ----------------------------------------------------------------- the field
Fr_zero == 0

Fr_from_u128(n) == n % FieldModulus

Fr_add(a, b) == (a + b) % FieldModulus

Fr_mul(a, b) == (a * b) % FieldModulus

\* --------------------------------------------------------------- public keys
\* PublicKey::default(), the key of a vacant slot
PK_NULL == 0

\* the keys of Spec (pk1, pk2, ... of the tests)
Keys == 1..NumKeys

\* the keys of SpecSet: enough to fill every slot and have one key left over
SetKeys == 1..(NUM_NEIGHBOURS + 1)

Slots == 1..NUM_NEIGHBOURS

\* Option::None of the position() results (slot indices start at 1)
None == 0

\* ------------------------------------------------------------------ opinions
\* A signature is modelled by what verification can tell about it: the key
\* whose secret key made it and the message it was made for.
\* Signature::new(0, 0, 0)
Signature_default == <<0, 0>>

\* sign(&sk, &pk, message_hash), with sk the secret key of pk
sign(pk, msg) == <<pk, msg>>

\* verification of sig against the key pk and the message msg
verify(sig, pk, msg) == sig = <<pk, msg>>

\* the message hash of the pks and scores of an opinion: a running hash in
\* the field over the pairs in order, so that changing a key or a score of
\* the rows used here changes the hash
RECURSIVE hash_upto(_, _)
hash_upto(scores, n) ==
    IF n = 0 THEN 1
    ELSE (hash_upto(scores, n - 1) * 131 + scores[n][1] * 1009 + scores[n][2] + 1)
         % FieldModulus

calculate_message_hash(scores) == hash_upto(scores, Len(scores))

Opinion_new(sig, message_hash, scores) ==
    [sig |-> sig, message_hash |-> message_hash, scores |-> scores]

Opinion_default ==
    [sig |-> Signature_default, message_hash |-> Fr_zero,
     scores |-> [j \in Slots |-> <<PK_NULL, Fr_zero>>]]

\* pks of the tests: [pk1, pk2, default, ...], [pk1, pk2, pk3, default, ...]
TestPks == [j \in Slots |-> IF j <= NumKeys THEN j ELSE PK_NULL]

\* score rows offered to update_op: the all-zero row, the rows that give
\* INITIAL_SCORE at exactly one index (that of pk1, of pk2 or the first
\* default one) and the row that gives INITIAL_SCORE from pk1 to that one
UnitRow(k) == [j \in Slots |-> IF j = k THEN Fr_from_u128(INITIAL_SCORE) ELSE Fr_zero]

AllRow == [j \in Slots |-> IF j <= NumKeys + 1 THEN Fr_from_u128(INITIAL_SCORE) ELSE Fr_zero]

ScoreRows == {UnitRow(k) : k \in {0, 1, 2, NumKeys + 1}} \cup {AllRow}

\* pks.zip(scores), hashed and signed as "Peer1(pk1) signs the opinion"
TestOpinion(row) ==
    LET scores == [j \in Slots |-> <<TestPks[j], row[j]>>]
        message_hash == calculate_message_hash(scores)
    IN  Opinion_new(sign(1, message_hash), message_hash, scores)

Opinions == {TestOpinion(row) : row \in ScoreRows}

SetOpinions == {TestOpinion(UnitRow(2))}

\* the senders offered to update_op in SpecSet
SetFroms == {PK_NULL, 1, NUM_NEIGHBOURS + 1}

\* ------------------------------------------------------------------- state
VARIABLES
    set,    \* EigenTrustSet.set: Slots -> <<PublicKey, Fr>>
    ops,    \* EigenTrustSet.ops: a function from the keys present to opinions
    call    \* the last call made on the set: its name, its arguments, how
            \* it ended and, for converge, the state it started from, the
            \* value of s around every round and the vector returned

\* the peer of eigen-trust/src/peer/mod.rs
MAX_NEIGHBORS == 256

NeighborSlots == 1..MAX_NEIGHBORS

VARIABLES
    neighbors,                \* Peer.neighbors: NeighborSlots -> PeerId or None
    pubkeys,                  \* Peer.pubkeys: PeerId -> PublicKey
    neighbor_scores,          \* Peer.neighbor_scores: PeerId -> u32
    cached_neighbor_opinion,  \* Peer.cached_neighbor_opinion: <<PeerId, Epoch>> -> Opinion
    cached_local_opinion,     \* Peer.cached_local_opinion: <<PeerId, Epoch>> -> Opinion
    pcall   \* the last call made on the peer: its name, its arguments, how
            \* it ended and what it returned

\* the node of protocol/src/node.rs: its swarm, its two timers and its loop
VARIABLES
    events,          \* Node.swarm: the swarm events ready to be taken, oldest first
    sent,            \* Node.swarm: the requests and responses handed to the swarm
    outer_interval,  \* main_loop's outer_interval: the epoch timer
    inner_interval,  \* main_loop's inner_interval: the iteration timer
    node,            \* where main_loop stands and what its last step was
    net              \* the remote peers: who is connected and what they hold

set_vars == <<set, ops, call>>

node_vars == <<events, sent, outer_interval, inner_interval, node, net>>

peer_vars == <<neighbors, pubkeys, neighbor_scores, cached_neighbor_opinion,
               cached_local_opinion, pcall>>

vars == <<set_vars, peer_vars, node_vars>>

\* Peer::new
Peer_new ==
    /\ neighbors = [i \in NeighborSlots |-> None]
    /\ pubkeys = << >>
    /\ neighbor_scores = << >>
    /\ cached_neighbor_opinion = << >>
    /\ cached_local_opinion = << >>
    /\ pcall = [op |-> "new", out |-> "ok", after |-> 0]

\* a timer that never fires: stream::pending()
Timer_pending == [pending |-> TRUE, limit |-> 0, next |-> 0, ready |-> FALSE]

\* no node has been started: nothing queued, nothing sent, no timer armed
Node_none ==
    /\ events = << >>
    /\ sent = {}
    /\ outer_interval = Timer_pending
    /\ inner_interval = Timer_pending
    /\ node = [pc |-> "none"]
    /\ net = [connected |-> {}, over |-> FALSE, local |-> {}, epoch |-> 0,
              arrived |-> 0]

EigenTrustSet_new ==
    /\ set = [i \in Slots |-> <<PK_NULL, Fr_zero>>]
    /\ ops = << >>

Init ==
    /\ EigenTrustSet_new
    /\ call = [op |-> "new", out |-> "ok", after |-> 0]
    /\ Peer_new
    /\ Node_none

\* a panic unwinds the caller: nothing more is called on the set
Running == call.out = "ok"

\* the last index holding pk instead of the first
position_last(s, pk) ==
    IF \E i \in Slots : s[i][1] = pk
    THEN CHOOSE i \in Slots : s[i][1] = pk /\ \A k \in (i + 1)..NUM_NEIGHBOURS : s[k][1] # pk
    ELSE None

\* self.set.iter().position(|&(x, _)| x == pk)
position(s, pk) ==
    IF \E i \in Slots : s[i][1] = pk
    THEN CHOOSE i \in Slots : s[i][1] = pk /\ \A k \in 1..(i - 1) : s[k][1] # pk
    ELSE None

\* an insert that keeps the entry already present
insert_if_absent(m, k, v) ==
    [x \in (DOMAIN m) \cup {k} |-> IF x \in DOMAIN m THEN m[x] ELSE v]

\* HashMap::insert
insert(m, k, v) == [x \in (DOMAIN m) \cup {k} |-> IF x = k THEN v ELSE m[x]]

\* calls made after a completed converge are counted, the others are not
After == IF call.op = "converge" \/ call.after > 0 THEN call.after + 1 ELSE 0

Budget == After <= MaxAfter

\* --------------------------------------------------------------- add_member
Called(name, out) == [op |-> name, out |-> out, after |-> After]

\* add_member with the membership assertion placed after the write
add_member_assert_late(pk) ==
    /\ Running
    /\ Budget
    /\ UNCHANGED <<peer_vars, node_vars>>
    /\ LET pos == position(set, pk)
           first_available == position(set, PK_NULL)
       IN  IF first_available = None
           THEN /\ call' = Called("add_member", "panic_unwrap") @@ [pk |-> pk]
                /\ UNCHANGED <<set, ops>>
           ELSE /\ set' = [set EXCEPT ![first_available] =
                                <<pk, Fr_from_u128(INITIAL_SCORE)>>]
                /\ call' = Called("add_member",
                                  IF pos # None THEN "panic_assert" ELSE "ok")
                            @@ [pk |-> pk]
                /\ UNCHANGED ops

add_member(pk) ==
    /\ Running
    /\ Budget
    /\ UNCHANGED <<peer_vars, node_vars>>
    /\ LET pos == position(set, pk)
           first_available == position(set, PK_NULL)
       IN  IF pos # None
           THEN \* assert!(pos.is_none()) fails
                /\ call' = Called("add_member", "panic_assert") @@ [pk |-> pk]
                /\ UNCHANGED <<set, ops>>
           ELSE IF first_available = None
           THEN \* first_available.unwrap() fails
                /\ call' = Called("add_member", "panic_unwrap") @@ [pk |-> pk]
                /\ UNCHANGED <<set, ops>>
           ELSE /\ set' = [set EXCEPT ![first_available] =
                                <<pk, Fr_from_u128(INITIAL_SCORE)>>]
                /\ call' = Called("add_member", "ok") @@ [pk |-> pk]
                /\ UNCHANGED ops

\* ---------------------------------------------------------------- update_op
update_op(from, op) ==
    /\ Running
    /\ Budget
    /\ UNCHANGED <<peer_vars, node_vars>>
    /\ LET pos_from == position(set, from)
       IN  IF pos_from = None
           THEN \* assert!(pos_from.is_some()) fails
                /\ call' = Called("update_op", "panic_assert") @@ [from |-> from]
                /\ UNCHANGED <<set, ops>>
           ELSE /\ ops' = insert(ops, from, op)
                /\ call' = Called("update_op", "ok")
                            @@ [from |-> from, arg |-> op, had |-> from \in DOMAIN ops]
                /\ UNCHANGED set

NextSet ==
    \/ \E pk \in SetKeys \cup {PK_NULL} : add_member(pk)
    \/ \E from \in SetFroms, op \in SetOpinions : update_op(from, op)

SpecSet == Init /\ [][NextSet]_vars

\* ----------------------------------------------------------------- converge
\* true_score without the test that keeps a member from scoring itself
true_score_self(s, i, j, pk_j, score) ==
    IF s[j][1] = pk_j THEN score ELSE Fr_zero

\* lines 76-83: the scores of the opinion of slot i, each one kept only when
\* it is given to another index whose slot holds the key the opinion names
true_score(s, i, j, pk_j, score) ==
    IF j # i /\ s[j][1] = pk_j THEN score ELSE Fr_zero

filter_scores(s, i, scores) ==
    [j \in Slots |-> <<scores[j][1], true_score(s, i, j, scores[j][1], scores[j][2])>>]

\* score_sum of lines 76-83, accumulated over j = 1..n
RECURSIVE score_sum(_, _)
score_sum(scores, n) ==
    IF n = 0 THEN Fr_zero ELSE Fr_add(score_sum(scores, n - 1), scores[n][2])

\* filter_slot that takes the default opinion for a live slot whose key has
\* no entry in ops, so that the slot is nullified
filter_slot_default(st, i) ==
    LET pk == st.set[i][1]
    IN  IF pk = PK_NULL
        THEN IF pk \in DOMAIN st.ops
             THEN [st EXCEPT !.out = "panic_assert"]
             ELSE st
        ELSE LET op == IF pk \in DOMAIN st.ops THEN st.ops[pk] ELSE Opinion_default
                 scores == filter_scores(st.set, i, op.scores)
                 sum == score_sum(scores, NUM_NEIGHBOURS)
             IN  [st EXCEPT
                    !.ops = insert(st.ops, pk, [op EXCEPT !.scores = scores]),
                    !.set[i] = IF sum = Fr_zero
                               THEN <<PK_NULL, Fr_zero>>
                               ELSE @]

\* lines 66-127: one pass of the loop body for slot i on the state st
filter_slot(st, i) ==
    LET pk == st.set[i][1]
    IN  IF pk = PK_NULL
        THEN IF pk \in DOMAIN st.ops
             THEN [st EXCEPT !.out = "panic_assert"]
             ELSE st
        ELSE IF pk \notin DOMAIN st.ops
             THEN [st EXCEPT !.out = "panic_unwrap"]
             ELSE LET scores == filter_scores(st.set, i, st.ops[pk].scores)
                      sum == score_sum(scores, NUM_NEIGHBOURS)
                  IN  [st EXCEPT
                         !.ops[pk].scores = scores,
                         !.set[i] = IF sum = Fr_zero
                                    THEN <<PK_NULL, Fr_zero>>
                                    ELSE @]

\* the loop of lines 66-127 over the slots 1..n, stopping at a panic
RECURSIVE filter(_, _)
filter(st, n) ==
    IF n = 0 THEN st
    ELSE LET prev == filter(st, n - 1)
         IN  IF prev.out = "ok" THEN filter_slot(prev, n) ELSE prev

\* Filtered that removes the nullified slots from the set and closes the gaps
Filtered_compact(s, o) ==
    LET f == filter([set |-> s, ops |-> o, out |-> "ok"], NUM_NEIGHBOURS)
        live == SelectSeq(f.set, LAMBDA member : member[1] # PK_NULL)
    IN  [f EXCEPT !.set = [i \in Slots |-> IF i <= Len(live) THEN live[i]
                                           ELSE <<PK_NULL, Fr_zero>>] \o << >>]

Filtered(s, o) == filter([set |-> s, ops |-> o, out |-> "ok"], NUM_NEIGHBOURS)

\* self.ops.get(&pk).unwrap_or_else(|| &default_op)
ops_get_or_default(o, pk) == IF pk \in DOMAIN o THEN o[pk] ELSE Opinion_default

\* new_s_at without the weight s[j] of the giving slot
RECURSIVE new_s_at_unweighted(_, _, _, _, _)
new_s_at_unweighted(s, o, sv, i, n) ==
    IF n = 0 THEN Fr_zero
    ELSE Fr_add(new_s_at_unweighted(s, o, sv, i, n - 1),
                ops_get_or_default(o, s[n][1]).scores[i][2])

\* new_s[i] of lines 146-151: the sum over j = 1..n of distributions[j][i],
\* where distributions[j][i] = ops_j.scores[i].1 * s[j] (lines 134-144)
RECURSIVE new_s_at(_, _, _, _, _)
new_s_at(s, o, sv, i, n) ==
    IF n = 0 THEN Fr_zero
    ELSE Fr_add(new_s_at(s, o, sv, i, n - 1),
                Fr_mul(ops_get_or_default(o, s[n][1]).scores[i][2], sv[n]))

\* one round of the loop of lines 132-154 (the result as a tuple, so that
\* each round is computed once)
iteration(s, o, sv) ==
    [i \in Slots |-> new_s_at(s, o, sv, i, NUM_NEIGHBOURS)] \o << >>

\* the values of s at the head of each round and after the last one:
\* s_vectors(...)[t + 1] is s after t rounds
RECURSIVE s_vectors(_, _, _)
s_vectors(s, o, t) ==
    IF t = 0 THEN << [i \in Slots |-> s[i][2]] >>
    ELSE LET prev == s_vectors(s, o, t - 1)
         IN  Append(prev, iteration(s, o, prev[t]))

converge ==
    /\ Running
    /\ Budget
    /\ UNCHANGED <<peer_vars, node_vars>>
    /\ LET f == Filtered(set, ops)
       IN  /\ set' = f.set
           /\ ops' = f.ops
           /\ IF f.out = "ok"
              THEN LET sv == s_vectors(f.set, f.ops, NUM_ITERATIONS)
                   IN  call' = Called("converge", "ok")
                               @@ [pre_set |-> set, pre_ops |-> ops,
                                   s |-> sv, ret |-> sv[NUM_ITERATIONS + 1]]
              ELSE call' = Called("converge", f.out)
                           @@ [pre_set |-> set, pre_ops |-> ops]

Next ==
    \/ \E pk \in Keys \cup {PK_NULL} : add_member(pk)
    \/ \E from \in Keys \cup {PK_NULL}, op \in Opinions : update_op(from, op)
    \/ converge

Spec == Init /\ [][Next]_vars

\* ------------------------------------------------- converge on the test sets
\* the set after add_member(pk1) ... add_member(pk_n)
FilledSet(n) ==
    [i \in Slots |-> IF i <= n THEN <<i, Fr_from_u128(INITIAL_SCORE)>>
                               ELSE <<PK_NULL, Fr_zero>>]

\* an opinion over the keys pks with the scores row, hashed and signed by from
SignedOpinion(from, pks, row) ==
    LET scores == [j \in Slots |-> <<pks[j], row[j]>>]
        message_hash == calculate_message_hash(scores)
    IN  Opinion_new(sign(from, message_hash), message_hash, scores)

\* pks and scores of test_add_three_members_with_opinions
ThreePks == <<1, 2, 3, PK_NULL, PK_NULL, PK_NULL>>

ThreeScores ==
    << <<0, 300, 700, 0, 0, 0>>,
       <<600, 0, 400, 0, 0, 0>>,
       <<600, 400, 0, 0, 0, 0>> >>

\* pks of a set that six members fill
SixPks == [j \in Slots |-> j]

\* the calls of update_op offered in SpecConv: the three opinions of the test
\* and, over the six keys, pk1 scoring pk2, pk2 scoring nobody or pk1, and
\* every other member scoring pk1
ConvUpdates ==
    {<<k, SignedOpinion(k, ThreePks, ThreeScores[k])>> : k \in 1..3}
    \cup {<<1, SignedOpinion(1, SixPks, UnitRow(2))>>,
          <<2, SignedOpinion(2, SixPks, UnitRow(0))>>}
    \cup {<<k, SignedOpinion(k, SixPks, UnitRow(1))>> : k \in 2..NUM_NEIGHBOURS}

\* the opinion that update_op(PublicKey::default(), op) stored while the set
\* still had a vacant slot
NullOpinion == SignedOpinion(1, SixPks, UnitRow(2))

\* three or six members added to a new set, before or after that update_op
InitConv ==
    /\ \E n \in {3, NUM_NEIGHBOURS} : set = FilledSet(n)
    /\ ops \in {<< >>, insert(<< >>, PK_NULL, NullOpinion)}
    /\ call = [op |-> "new", out |-> "ok", after |-> 0]
    /\ Peer_new
    /\ Node_none

NextConv ==
    \/ \E u \in ConvUpdates : update_op(u[1], u[2])
    \/ converge

SpecConv == InitConv /\ [][NextConv]_vars

\* ------------------------------------------------------- the peer: neighbors
PeerIds == 1..NumPeers

\* the peer that takes slot i when MAX_NEIGHBORS other peers connect first
Filler(i) == NumPeers + i

\* the peers offered to add_neighbor and remove_neighbor
NeighborInputs == PeerIds \cup {Filler(1), Filler(MAX_NEIGHBORS)}

\* a panic unwinds the caller: nothing more is called on the peer
PeerRunning == pcall.out # "panic_unwrap"

\* calls made after a completed calculate_local_opinions are counted, the
\* others are not
PeerAfter ==
    IF pcall.op = "calculate_local_opinions" \/ pcall.after > 0
    THEN pcall.after + 1
    ELSE 0

PeerBudget == PeerAfter <= MaxAfter

PeerCalled(name, out) == [op |-> name, out |-> out, after |-> PeerAfter]

\* self.neighbors.contains(&Some(peer_id))
contains(nb, peer_id) == \E i \in NeighborSlots : nb[i] = peer_id

\* the highest index satisfying x == v instead of the lowest
neighbor_position_last(nb, v) ==
    IF \E i \in NeighborSlots : nb[i] = v
    THEN CHOOSE i \in NeighborSlots :
            nb[i] = v /\ \A k \in (i + 1)..MAX_NEIGHBORS : nb[k] # v
    ELSE None

\* self.neighbors.iter().position(|&x| x == v), v being None or Some(peer_id)
neighbor_position(nb, v) ==
    IF \E i \in NeighborSlots : nb[i] = v
    THEN CHOOSE i \in NeighborSlots : nb[i] = v /\ \A k \in 1..(i - 1) : nb[k] # v
    ELSE None

add_neighbor(peer_id) ==
    /\ PeerRunning
    /\ PeerBudget
    /\ LET index == neighbor_position(neighbors, None)
           record == [peer_id |-> peer_id, pre |-> neighbors]
       IN  IF contains(neighbors, peer_id)
           THEN /\ pcall' = PeerCalled("add_neighbor", "ok") @@ record
                /\ UNCHANGED neighbors
           ELSE IF index = None
           THEN /\ pcall' = PeerCalled("add_neighbor", "MaxNeighboursReached")
                             @@ record
                /\ UNCHANGED neighbors
           ELSE /\ neighbors' = [neighbors EXCEPT ![index] = peer_id]
                /\ pcall' = PeerCalled("add_neighbor", "ok") @@ record
    /\ UNCHANGED <<pubkeys, neighbor_scores, cached_neighbor_opinion,
                   cached_local_opinion>>
    /\ UNCHANGED <<set_vars, node_vars>>

\* remove_neighbor that moves the neighbor of the highest taken slot into the
\* slot it frees
remove_neighbor_swap(peer_id) ==
    /\ PeerRunning
    /\ PeerBudget
    /\ LET index_res == neighbor_position(neighbors, peer_id)
           added == pcall.op = "add_neighbor" /\ pcall.peer_id = peer_id
           taken == {i \in NeighborSlots : neighbors[i] # None}
           last == CHOOSE i \in taken : \A k \in taken : k <= i
       IN  /\ neighbors' = IF index_res # None
                           THEN [neighbors EXCEPT ![index_res] = neighbors[last],
                                                  ![last] = None]
                           ELSE neighbors
           /\ pcall' = PeerCalled("remove_neighbor", "ok")
                        @@ [peer_id |-> peer_id, pre |-> neighbors,
                            added |-> added,
                            before_add |-> IF added THEN pcall.pre ELSE neighbors]
    /\ UNCHANGED <<pubkeys, neighbor_scores, cached_neighbor_opinion,
                   cached_local_opinion>>
    /\ UNCHANGED <<set_vars, node_vars>>

\* the record of remove_neighbor also tells whether the call before it was
\* add_neighbor of the same peer, and what neighbors was before that call
remove_neighbor(peer_id) ==
    /\ PeerRunning
    /\ PeerBudget
    /\ LET index_res == neighbor_position(neighbors, peer_id)
           added == pcall.op = "add_neighbor" /\ pcall.peer_id = peer_id
       IN  /\ neighbors' = IF index_res # None
                           THEN [neighbors EXCEPT ![index_res] = None]
                           ELSE neighbors
           /\ pcall' = PeerCalled("remove_neighbor", "ok")
                        @@ [peer_id |-> peer_id, pre |-> neighbors,
                            added |-> added,
                            before_add |-> IF added THEN pcall.pre ELSE neighbors]
    /\ UNCHANGED <<pubkeys, neighbor_scores, cached_neighbor_opinion,
                   cached_local_opinion>>
    /\ UNCHANGED <<set_vars, node_vars>>

\* a new peer, or one to which MAX_NEIGHBORS other peers have connected
InitNeighbors ==
    /\ EigenTrustSet_new
    /\ call = [op |-> "new", out |-> "ok", after |-> 0]
    /\ neighbors \in {[i \in NeighborSlots |-> None],
                      [i \in NeighborSlots |-> Filler(i)]}
    /\ pubkeys = << >>
    /\ neighbor_scores = << >>
    /\ cached_neighbor_opinion = << >>
    /\ cached_local_opinion = << >>
    /\ pcall = [op |-> "new", out |-> "ok", after |-> 0]
    /\ Node_none

NextNeighbors ==
    \/ \E peer_id \in NeighborInputs : add_neighbor(peer_id)
    \/ \E peer_id \in NeighborInputs : remove_neighbor(peer_id)

SpecNeighbors == InitNeighbors /\ [][NextNeighbors]_vars

\* ------------------------------------------------- the peer: cached opinions
Epochs == 0..MaxEpoch

\* f64 values are counted in hundredths
F64(hundredths) == hundredths

\* the value of 0. / 0.
F64_NaN == -1

\* f64 division and multiplication
F64_div(a, b) == IF b = 0 THEN F64_NaN ELSE (a * 100) \div b

F64_mul(a, b) == IF a = F64_NaN \/ b = F64_NaN THEN F64_NaN ELSE (a * b) \div 100

\* SigData::empty()
SigData_empty == 0

\* the public key of a peer
PubKey(peer_id) == peer_id

\* proof bytes: none (Vec::new()), a proof made by the holder of a public
\* key, or bytes that are no proof at all
NoProof == <<"none", 0>>

ProofBy(pubkey) == <<"proof", pubkey>>

Garbage == <<"garbage", 0>>

\* Opinion::new(k, sig, op, proof_bytes) of peer/opinion.rs
PeerOpinion_new(k, sig, op, proof_bytes) ==
    [k |-> k, sig |-> sig, op |-> op, proof_bytes |-> proof_bytes]

\* Opinion::empty()
PeerOpinion_empty == PeerOpinion_new(0, SigData_empty, F64(0), NoProof)

\* self.cached_*_opinion.get(key).unwrap_or(&Opinion::empty()).clone()
get_or_empty(cache, key) ==
    IF key \in DOMAIN cache THEN cache[key] ELSE PeerOpinion_empty

\* get_local_opinion reading the opinions cached for the neighbors
get_local_opinion_neighbor(key) ==
    /\ PeerRunning
    /\ PeerBudget
    /\ pcall' = PeerCalled("get_local_opinion", "ok")
                 @@ [key |-> key, ret |-> get_or_empty(cached_neighbor_opinion, key)]
    /\ UNCHANGED <<neighbors, pubkeys, neighbor_scores, cached_neighbor_opinion,
                   cached_local_opinion>>
    /\ UNCHANGED <<set_vars, node_vars>>

get_local_opinion(key) ==
    /\ PeerRunning
    /\ PeerBudget
    /\ pcall' = PeerCalled("get_local_opinion", "ok")
                 @@ [key |-> key, ret |-> get_or_empty(cached_local_opinion, key)]
    /\ UNCHANGED <<neighbors, pubkeys, neighbor_scores, cached_neighbor_opinion,
                   cached_local_opinion>>
    /\ UNCHANGED <<set_vars, node_vars>>

cache_local_opinion(key, opinion) ==
    /\ PeerRunning
    /\ PeerBudget
    /\ cached_local_opinion' = insert(cached_local_opinion, key, opinion)
    /\ pcall' = PeerCalled("cache_local_opinion", "ok")
                 @@ [key |-> key, arg |-> opinion]
    /\ UNCHANGED <<neighbors, pubkeys, neighbor_scores, cached_neighbor_opinion>>
    /\ UNCHANGED <<set_vars, node_vars>>

get_neighbor_opinion(key) ==
    /\ PeerRunning
    /\ PeerBudget
    /\ pcall' = PeerCalled("get_neighbor_opinion", "ok")
                 @@ [key |-> key, ret |-> get_or_empty(cached_neighbor_opinion, key)]
    /\ UNCHANGED <<neighbors, pubkeys, neighbor_scores, cached_neighbor_opinion,
                   cached_local_opinion>>
    /\ UNCHANGED <<set_vars, node_vars>>

cache_neighbor_opinion(key, opinion) ==
    /\ PeerRunning
    /\ PeerBudget
    /\ cached_neighbor_opinion' = insert(cached_neighbor_opinion, key, opinion)
    /\ pcall' = PeerCalled("cache_neighbor_opinion", "ok")
                 @@ [key |-> key, arg |-> opinion]
    /\ UNCHANGED <<neighbors, pubkeys, neighbor_scores, cached_local_opinion>>
    /\ UNCHANGED <<set_vars, node_vars>>

\* the keys used in SpecCache: the first peer at every epoch, the second at
\* the first epoch
CacheKeys == {<<1, e>> : e \in Epochs} \cup {<<2, 0>>}

\* the opinions cached under a key in SpecCache: the one of the test, with op
\* 0.5 and no proof, and one with op 0.1 proved by the peer of the key
CacheOpinions(key) ==
    {PeerOpinion_new(key[2], SigData_empty, F64(50), NoProof),
     PeerOpinion_new(key[2], PubKey(key[1]), F64(10), ProofBy(PubKey(key[1])))}

InitCache ==
    /\ EigenTrustSet_new
    /\ call = [op |-> "new", out |-> "ok", after |-> 0]
    /\ Peer_new
    /\ Node_none

NextCache ==
    \/ \E key \in CacheKeys : \E opinion \in CacheOpinions(key) :
          cache_local_opinion(key, opinion)
    \/ \E key \in CacheKeys : \E opinion \in CacheOpinions(key) :
          cache_neighbor_opinion(key, opinion)
    \/ \E key \in CacheKeys : get_local_opinion(key)
    \/ \E key \in CacheKeys : get_neighbor_opinion(key)

SpecCache == InitCache /\ [][NextCache]_vars

\* ------------------------------------------------------ the peer: trust score
identify_neighbor(peer_id, pubkey) ==
    /\ PeerRunning
    /\ PeerBudget
    /\ pubkeys' = insert(pubkeys, peer_id, pubkey)
    /\ pcall' = PeerCalled("identify_neighbor", "ok")
                 @@ [peer_id |-> peer_id, pubkey |-> pubkey]
    /\ UNCHANGED <<neighbors, neighbor_scores, cached_neighbor_opinion,
                   cached_local_opinion>>
    /\ UNCHANGED <<set_vars, node_vars>>

set_score(peer_id, score) ==
    /\ PeerRunning
    /\ PeerBudget
    /\ neighbor_scores' = insert(neighbor_scores, peer_id, score)
    /\ pcall' = PeerCalled("set_score", "ok")
                 @@ [peer_id |-> peer_id, score |-> score]
    /\ UNCHANGED <<neighbors, pubkeys, cached_neighbor_opinion,
                   cached_local_opinion>>
    /\ UNCHANGED <<set_vars, node_vars>>

\* Opinion::verify(&pubkey_p, &pubkey_v, &params, &vk) of peer/opinion.rs:
\* Err when the proof bytes cannot be read, otherwise Ok of whether they are
\* a proof made by the holder of pubkey_p
PeerOpinion_verify(opinion, pubkey_p) ==
    IF opinion.proof_bytes = Garbage
    THEN [out |-> "err", res |-> FALSE]
    ELSE [out |-> "ok", res |-> opinion.proof_bytes = ProofBy(pubkey_p)]

\* self.pubkeys.get(&peer_id).cloned().unwrap()
get_pub_key(peer_id) ==
    IF peer_id \in DOMAIN pubkeys
    THEN [out |-> "ok", ret |-> pubkeys[peer_id]]
    ELSE [out |-> "panic_unwrap", ret |-> 0]

\* the closure of lines 122-136 applied to one slot
neighbor_opinion_at(peer, k) ==
    IF peer = None
    THEN [out |-> "ok", ret |-> F64(0)]
    ELSE LET opinion == get_or_empty(cached_neighbor_opinion, <<peer, k>>)
             pubkey_p == get_pub_key(peer)
         IN  IF pubkey_p.out # "ok"
             THEN [out |-> "panic_unwrap", ret |-> F64(0)]
             ELSE LET res == PeerOpinion_verify(opinion, pubkey_p.ret)
                  IN  IF res.out # "ok"
                      THEN [out |-> "panic_unwrap", ret |-> F64(0)]
                      ELSE [out |-> "ok",
                            ret |-> IF res.res THEN opinion.op ELSE F64(0)]

\* self.neighbors.map(..): the array of the opinions, or the panic of the
\* first slot whose closure panics
op_ji_at(k) ==
    LET per == [i \in NeighborSlots |-> neighbor_opinion_at(neighbors[i], k)] \o << >>
    IN  IF \E i \in NeighborSlots : per[i].out # "ok"
        THEN [out |-> "panic_unwrap", ret |-> << >>]
        ELSE [out |-> "ok", ret |-> [i \in NeighborSlots |-> per[i].ret] \o << >>]

get_neighbor_opinions_at(k) ==
    /\ PeerRunning
    /\ PeerBudget
    /\ LET op_ji == op_ji_at(k)
       IN  pcall' = PeerCalled("get_neighbor_opinions_at", op_ji.out)
                    @@ [k |-> k, ret |-> op_ji.ret]
    /\ UNCHANGED <<neighbors, pubkeys, neighbor_scores, cached_neighbor_opinion,
                   cached_local_opinion>>
    /\ UNCHANGED <<set_vars, node_vars>>

\* the sum of the entries lo..hi of an array, by halves
RECURSIVE range_sum(_, _, _)
range_sum(a, lo, hi) ==
    IF lo > hi THEN 0
    ELSE IF lo = hi THEN a[lo]
    ELSE LET mid == (lo + hi) \div 2
         IN  range_sum(a, lo, mid) + range_sum(a, mid + 1, hi)

\* op_ji.iter().fold(0., |acc, t| acc + t) over the first n entries
fold_sum(op_ji, n) == F64(0) + range_sum(op_ji, 1, n)

global_trust_score_at(at) ==
    /\ PeerRunning
    /\ PeerBudget
    /\ LET op_ji == op_ji_at(at)
       IN  pcall' = PeerCalled("global_trust_score_at", op_ji.out)
                    @@ [at |-> at,
                        ret |-> IF op_ji.out = "ok"
                                THEN fold_sum(op_ji.ret, MAX_NEIGHBORS)
                                ELSE F64(0)]
    /\ UNCHANGED <<neighbors, pubkeys, neighbor_scores, cached_neighbor_opinion,
                   cached_local_opinion>>
    /\ UNCHANGED <<set_vars, node_vars>>

\* self.neighbor_scores.get(&peer_id).unwrap_or(&0)
score_or_zero(peer_id) ==
    IF peer_id \in DOMAIN neighbor_scores THEN neighbor_scores[peer_id] ELSE 0

\* the loop of lines 152-155 over self.neighbors()
get_sum_of_scores ==
    LET scores == [i \in NeighborSlots |->
                      IF neighbors[i] = None THEN 0 ELSE score_or_zero(neighbors[i])]
                  \o << >>
    IN  range_sum(scores, 1, MAX_NEIGHBORS)

get_normalized_score(score) == F64_div(F64(score * 100), F64(get_sum_of_scores * 100))

\* the public key of the peer's own keypair
OwnPubKey == 0

\* Opinion::generate(&keypair, pubkey, k, op_ji, c_v, &params, &proving_key)
\* of peer/opinion.rs: the opinion for epoch k with op = (sum of op_ji) * c_v,
\* signed and proved with the peer's own keypair
PeerOpinion_generate(k, op_ji, c_v) ==
    [out |-> "ok",
     ret |-> PeerOpinion_new(k, OwnPubKey,
                             F64_mul(fold_sum(op_ji, MAX_NEIGHBORS), c_v),
                             ProofBy(OwnPubKey))]

\* the opinion that the loop body of lines 103-114 generates for peer_id
local_opinion_for(peer_id, k, op_ji) ==
    PeerOpinion_generate(k + 1, op_ji, get_normalized_score(score_or_zero(peer_id)))

\* the loop of lines 102-117: the slots are visited in order, each neighbor
\* gets its opinion cached under (peer_id, opinion.k), and the first
\* neighbor without a public key stops the loop with a panic
local_opinions_loop(k, op_ji) ==
    LET bad == {i \in NeighborSlots :
                   neighbors[i] # None /\ neighbors[i] \notin DOMAIN pubkeys}
        done == {i \in NeighborSlots :
                    neighbors[i] # None /\ \A b \in bad : i < b}
        keys == {<<neighbors[i], k + 1>> : i \in done}
    IN  [out |-> IF bad = {} THEN "ok" ELSE "panic_unwrap",
         cache |-> [x \in (DOMAIN cached_local_opinion) \cup keys |->
                       IF x \in keys
                       THEN local_opinion_for(x[1], k, op_ji).ret
                       ELSE cached_local_opinion[x]]]

calculate_local_opinions(k) ==
    /\ PeerRunning
    /\ PeerBudget
    /\ k + 1 <= MaxEpoch
    /\ LET op_ji == op_ji_at(k)
       IN  IF op_ji.out # "ok"
           THEN /\ pcall' = PeerCalled("calculate_local_opinions", op_ji.out)
                             @@ [k |-> k]
                /\ UNCHANGED cached_local_opinion
           ELSE LET loop == local_opinions_loop(k, op_ji.ret)
                IN  /\ cached_local_opinion' = loop.cache
                    /\ pcall' = PeerCalled("calculate_local_opinions", loop.out)
                                 @@ [k |-> k]
    /\ UNCHANGED <<neighbors, pubkeys, neighbor_scores, cached_neighbor_opinion>>
    /\ UNCHANGED <<set_vars, node_vars>>

\* the opinions cached for a neighbor in SpecPeer: at epoch 0 one proved by
\* the neighbor, one proved by the peer after it and one whose proof cannot
\* be read; at later epochs the one proved by the neighbor
NeighborOpinions(key) ==
    {PeerOpinion_new(key[2], PubKey(key[1]), F64(10), ProofBy(PubKey(key[1])))}
    \cup IF key[2] = 0
         THEN {PeerOpinion_new(key[2], PubKey(key[1] + 1), F64(20),
                               ProofBy(PubKey(key[1] + 1))),
               PeerOpinion_new(key[2], PubKey(key[1]), F64(40), Garbage)}
         ELSE {}

\* the score of the test and the peers that are given it in SpecPeer
TestScore == 5

ScoredPeers == {1}

InitPeer ==
    /\ EigenTrustSet_new
    /\ call = [op |-> "new", out |-> "ok", after |-> 0]
    /\ Peer_new
    /\ Node_none

NextPeer ==
    \/ \E peer_id \in PeerIds : add_neighbor(peer_id)
    \/ \E peer_id \in PeerIds : remove_neighbor(peer_id)
    \/ \E peer_id \in PeerIds : identify_neighbor(peer_id, PubKey(peer_id))
    \/ \E peer_id \in ScoredPeers : set_score(peer_id, TestScore)
    \/ \E key \in CacheKeys : \E opinion \in NeighborOpinions(key) :
          cache_neighbor_opinion(key, opinion)
    \/ \E k \in Epochs : get_neighbor_opinions_at(k)
    \/ \E at \in Epochs : global_trust_score_at(at)
    \/ \E k \in Epochs : calculate_local_opinions(k)

SpecPeer == InitPeer /\ [][NextPeer]_vars

\* ------------------------------------------------------- the node: its peer
\* the peer that node.rs drives keeps its opinions under (PeerId, Epoch, iter)
\* the opinion that travels between nodes: it names its epoch and iteration
NodeOpinion(epoch, iter, op, proof_bytes) ==
    [epoch |-> epoch, iter |-> iter, op |-> op, proof_bytes |-> proof_bytes]

\* Opinion::empty()
NodeOpinion_empty == NodeOpinion(0, 0, F64(0), NoProof)

\* get_local_opinion that returns the opinion cached for any peer at the
\* epoch and iteration of the key
Peer_get_local_opinion_any_peer(key) ==
    LET same == {k \in DOMAIN cached_local_opinion : k[2] = key[2] /\ k[3] = key[3]}
    IN  IF same # {}
        THEN cached_local_opinion[CHOOSE k \in same : TRUE]
        ELSE NodeOpinion_empty

\* self.cached_local_opinion.get(key).unwrap_or(&Opinion::empty()).clone()
Peer_get_local_opinion(key) ==
    IF key \in DOMAIN cached_local_opinion
    THEN cached_local_opinion[key]
    ELSE NodeOpinion_empty

\* cache_neighbor_opinion that drops an opinion for an iteration whose local
\* opinion is computed already
Peer_cache_neighbor_opinion_in_time(key, opinion) ==
    IF key \in DOMAIN cached_local_opinion
    THEN cached_neighbor_opinion
    ELSE insert(cached_neighbor_opinion, key, opinion)

\* self.cached_neighbor_opinion.insert(key, opinion)
Peer_cache_neighbor_opinion(key, opinion) ==
    insert(cached_neighbor_opinion, key, opinion)

\* identify_neighbor that keeps the key a peer was first identified with
Peer_identify_neighbor_first(peer_id, pubkey) ==
    [x \in (DOMAIN pubkeys) \cup {peer_id} |->
        IF x \in DOMAIN pubkeys THEN pubkeys[x] ELSE pubkey]

\* self.pubkeys.insert(peer_id, pubkey)
Peer_identify_neighbor(peer_id, pubkey) == insert(pubkeys, peer_id, pubkey)

\* add_neighbor that gives the first slot to the peer when no slot is vacant
Peer_add_neighbor_evict(peer_id) ==
    LET index == neighbor_position(neighbors, None)
    IN  IF contains(neighbors, peer_id)
        THEN [out |-> "ok", neighbors |-> neighbors]
        ELSE IF index = None
        THEN [out |-> "MaxNeighboursReached",
              neighbors |-> [neighbors EXCEPT ![1] = peer_id]]
        ELSE [out |-> "ok", neighbors |-> [neighbors EXCEPT ![index] = peer_id]]

\* add_neighbor: what it returns and the neighbors it leaves
Peer_add_neighbor(peer_id) ==
    LET index == neighbor_position(neighbors, None)
    IN  IF contains(neighbors, peer_id)
        THEN [out |-> "ok", neighbors |-> neighbors]
        ELSE IF index = None
        THEN [out |-> "MaxNeighboursReached", neighbors |-> neighbors]
        ELSE [out |-> "ok", neighbors |-> [neighbors EXCEPT ![index] = peer_id]]

\* remove_neighbor: the neighbors it leaves
Peer_remove_neighbor(peer_id) ==
    LET index == neighbor_position(neighbors, peer_id)
    IN  IF index = None THEN neighbors ELSE [neighbors EXCEPT ![index] = None]

\* self.peer.neighbors(): the peers held by the slots
Peer_neighbors == {neighbors[i] : i \in NeighborSlots} \ {None}

\* global_trust_score_at(epoch, iter): the sum of the opinions of the
\* neighbors at (epoch, iter) that verify under the key the neighbor was
\* identified with
Peer_global_trust_score_at(epoch, iter) ==
    LET op_ji == [i \in NeighborSlots |->
                     LET peer == neighbors[i]
                         key == <<peer, epoch, iter>>
                     IN  IF /\ peer # None
                            /\ peer \in DOMAIN pubkeys
                            /\ key \in DOMAIN cached_neighbor_opinion
                            /\ PeerOpinion_verify(cached_neighbor_opinion[key],
                                                  pubkeys[peer]).res
                         THEN cached_neighbor_opinion[key].op
                         ELSE F64(0)] \o << >>
    IN  fold_sum(op_ji, MAX_NEIGHBORS)

\* calculate_local_opinion(peer, epoch, iter) for every peer of a set: the
\* opinion is the score of the iteration before (one unit at iteration 0)
\* times the normalized score of the neighbor, proved with the peer's own
\* keypair, and is cached under (peer, epoch, iter)
Peer_calculate_local_opinion(peers, epoch, iter) ==
    LET keys == {<<peer, epoch, iter>> : peer \in peers}
        prev == IF iter = 0
                THEN F64(1)
                ELSE Peer_global_trust_score_at(epoch, iter - 1)
    IN  [x \in (DOMAIN cached_local_opinion) \cup keys |->
            IF x \in keys
            THEN NodeOpinion(epoch, iter,
                             F64_mul(prev, get_normalized_score(score_or_zero(x[1]))),
                             ProofBy(OwnPubKey))
            ELSE cached_local_opinion[x]]

\* ---------------------------------------------------- the node: dispatcher
\* a swarm event: for a response, epoch and iter are those of the request it
\* answers
SwarmEvent(kind, peer, epoch, iter, opinion, pub_key) ==
    [kind |-> kind, peer |-> peer, epoch |-> epoch, iter |-> iter,
     opinion |-> opinion, pub_key |-> pub_key]

Request_Opinion(peer, epoch, iter) ==
    SwarmEvent("Request::Opinion", peer, epoch, iter, NodeOpinion_empty, 0)

Request_Identify(peer, pub_key) ==
    SwarmEvent("Request::Identify", peer, 0, 0, NodeOpinion_empty, pub_key)

Response_Opinion(peer, epoch, iter, opinion) ==
    SwarmEvent("Response::Opinion", peer, epoch, iter, opinion, 0)

Response_Identify(peer, pub_key) ==
    SwarmEvent("Response::Identify", peer, 0, 0, NodeOpinion_empty, pub_key)

ConnectionEstablished(peer) ==
    SwarmEvent("ConnectionEstablished", peer, 0, 0, NodeOpinion_empty, 0)

ConnectionClosed(peer) ==
    SwarmEvent("ConnectionClosed", peer, 0, 0, NodeOpinion_empty, 0)

\* the events that are only logged: failures, ResponseSent, NewListenAddr,
\* Dialing, and the identify protocol's events, whose key nothing here reads
OtherEvent(peer) == SwarmEvent("Other", peer, 0, 0, NodeOpinion_empty, 0)

NoEvent == SwarmEvent("None", 0, 0, 0, NodeOpinion_empty, 0)

\* what the select of main_loop yields when a stream has ended
NoneTick == -1

\* the record of a step of the node
Stepped(branch, tick, event, res) ==
    [node EXCEPT !.branch = branch, !.tick = tick, !.event = event, !.res = res,
                 !.backlog = Len(events)]

\* handle_req_res_events: a message handed to the swarm may fail to leave, and
\* the failure is only logged
handle_req_res_events(event) ==
    CASE event.kind = "Request::Opinion" ->
            LET opinion == Peer_get_local_opinion(<<event.peer, event.epoch, event.iter>>)
            IN  /\ \E res \in {"ok", "err"} :
                      /\ sent' = IF res = "ok"
                                 THEN sent \cup {Response_Opinion(event.peer, event.epoch,
                                                                  event.iter, opinion)}
                                 ELSE sent
                      /\ node' = Stepped("swarm", NoneTick, event, res)
                /\ UNCHANGED <<pubkeys, cached_neighbor_opinion>>
      [] event.kind = "Request::Identify" ->
            /\ pubkeys' = Peer_identify_neighbor(event.peer, event.pub_key)
            /\ \E res \in {"ok", "err"} :
                  /\ sent' = IF res = "ok"
                             THEN sent \cup {Response_Identify(event.peer, OwnPubKey)}
                             ELSE sent
                  /\ node' = Stepped("swarm", NoneTick, event, res)
            /\ UNCHANGED cached_neighbor_opinion
      [] event.kind = "Response::Opinion" ->
            /\ cached_neighbor_opinion' =
                  Peer_cache_neighbor_opinion(
                      <<event.peer, event.opinion.epoch, event.opinion.iter>>,
                      event.opinion)
            /\ node' = Stepped("swarm", NoneTick, event, "ok")
            /\ UNCHANGED <<pubkeys, sent>>
      [] event.kind = "Response::Identify" ->
            /\ pubkeys' = Peer_identify_neighbor(event.peer, event.pub_key)
            /\ node' = Stepped("swarm", NoneTick, event, "ok")
            /\ UNCHANGED <<cached_neighbor_opinion, sent>>

\* handle_swarm_events
handle_swarm_events(event) ==
    /\ CASE event.kind \in {"Request::Opinion", "Request::Identify",
                            "Response::Opinion", "Response::Identify"} ->
               /\ handle_req_res_events(event)
               /\ UNCHANGED neighbors
         [] event.kind = "ConnectionEstablished" ->
               LET res == Peer_add_neighbor(event.peer)
               IN  /\ neighbors' = res.neighbors
                   /\ node' = Stepped("swarm", NoneTick, event, res.out)
                   /\ UNCHANGED <<pubkeys, cached_neighbor_opinion, sent>>
         [] event.kind = "ConnectionClosed" ->
               /\ neighbors' = Peer_remove_neighbor(event.peer)
               /\ node' = Stepped("swarm", NoneTick, event, "ok")
               /\ UNCHANGED <<pubkeys, cached_neighbor_opinion, sent>>
         [] OTHER ->
               /\ node' = Stepped("swarm", NoneTick, event, "ok")
               /\ UNCHANGED <<neighbors, pubkeys, cached_neighbor_opinion, sent>>
    /\ UNCHANGED <<neighbor_scores, cached_local_opinion, pcall>>
    /\ UNCHANGED set_vars

\* ------------------------------------------------- the node: its two timers
\* create_iter(start, duration, limit): a stream of the ticks 0..limit-1 of
\* an interval, which then ends; at_once says whether start has come
create_iter(limit, at_once) ==
    [pending |-> FALSE, limit |-> limit, next |-> 0, ready |-> at_once]

\* stream.next() is ready: a tick has come, or the stream has ended
Ready(timer) == ~timer.pending /\ (timer.ready \/ timer.next >= timer.limit)

\* what stream.next() yields when it is ready: Some(tick), or None at the end
Yield(timer) == IF timer.next < timer.limit THEN timer.next ELSE NoneTick

\* the stream after it has yielded
Yielded(timer) ==
    IF timer.next < timer.limit
    THEN [timer EXCEPT !.next = @ + 1, !.ready = FALSE]
    ELSE timer

\* Node::new: nothing queued, nothing sent, main_loop not entered
Node_new ==
    /\ events = << >>
    /\ sent = {}
    /\ outer_interval = Timer_pending
    /\ inner_interval = Timer_pending
    /\ node = [pc |-> "new", branch |-> "none", tick |-> NoneTick,
               event |-> NoEvent, res |-> "ok", score |-> F64(0), epoch |-> 0,
               fired |-> 0, backlog |-> 0]

\* ----------------------------------------------- the node: driven directly
\* the peers that connect to the node: the first one runs this node's code,
\* the last one sends what it likes
NodePeers == {1, NumPeers}

Honest == {1}

\* the (epoch, iter) the node is asked about and asks about
ReqKey == <<MaxEpoch, NumIters - 1>>

\* node.handle_swarm_events(node.swarm.select_next_some().await)
select_next_some ==
    /\ node.pc = "new"
    /\ events # << >>
    /\ handle_swarm_events(Head(events))
    /\ events' = Tail(events)
    /\ UNCHANGED <<outer_interval, inner_interval, net>>

\* the requests send_epoch_requests(epoch, k) hands to the swarm
epoch_requests(epoch, k) == {Request_Opinion(peer, epoch, k) : peer \in Peer_neighbors}

send_epoch_requests(epoch, k) ==
    /\ node.pc = "new"
    /\ sent' = sent \cup epoch_requests(epoch, k)
    /\ UNCHANGED <<events, outer_interval, inner_interval, node, net>>
    /\ UNCHANGED <<set_vars, peer_vars>>

\* node.peer.calculate_local_opinion(peer, epoch, iter)
calculate_local_opinion(peer, epoch, iter) ==
    /\ node.pc = "new"
    /\ cached_local_opinion' = Peer_calculate_local_opinion({peer}, epoch, iter)
    /\ UNCHANGED <<neighbors, pubkeys, neighbor_scores, cached_neighbor_opinion, pcall>>
    /\ UNCHANGED <<events, sent, outer_interval, inner_interval, node, net>>
    /\ UNCHANGED set_vars

\* ------------------------------------------------------ the remote peers
\* an event becomes ready when the queue has room
Arrives(event) ==
    /\ Len(events) < MaxQueue
    /\ events' = Append(events, event)

\* a peer connects
remote_connects(peer) ==
    /\ peer \notin net.connected
    /\ Arrives(ConnectionEstablished(peer))
    /\ net' = [net EXCEPT !.connected = @ \cup {peer},
                          !.over = @ \/ Cardinality(net.connected) >= MAX_NEIGHBORS]
    /\ UNCHANGED <<sent, outer_interval, inner_interval, node>>
    /\ UNCHANGED <<set_vars, peer_vars>>

\* a connected peer disconnects
remote_disconnects(peer) ==
    /\ peer \in net.connected
    /\ Arrives(ConnectionClosed(peer))
    /\ net' = [net EXCEPT !.connected = @ \ {peer}]
    /\ UNCHANGED <<sent, outer_interval, inner_interval, node>>
    /\ UNCHANGED <<set_vars, peer_vars>>

\* a connected peer sends a request, or something that is only logged
remote_sends(event) ==
    /\ event.peer \in net.connected
    /\ net.arrived < MaxEvents
    /\ Arrives(event)
    /\ net' = [net EXCEPT !.arrived = @ + 1]
    /\ UNCHANGED <<sent, outer_interval, inner_interval, node>>
    /\ UNCHANGED <<set_vars, peer_vars>>

\* the opinion an honest peer computed of this node at (epoch, iter)
RemoteOpinion(peer, epoch, iter) ==
    NodeOpinion(epoch, iter, F64(50), ProofBy(PubKey(peer)))

\* an honest peer runs its inner tick
remote_calculates(peer, epoch, iter) ==
    /\ peer \in Honest
    /\ <<peer, epoch, iter>> \notin net.local
    /\ net' = [net EXCEPT !.local = @ \cup {<<peer, epoch, iter>>}]
    /\ UNCHANGED <<events, sent, outer_interval, inner_interval, node>>
    /\ UNCHANGED <<set_vars, peer_vars>>

\* what a peer answers to Request::Opinion(epoch, iter): an honest one its
\* cached local opinion or the empty one, as handle_req_res_events does; the
\* other one an opinion whose proof cannot be read or one proved by another
RemoteAnswers(peer, epoch, iter) ==
    IF peer \in Honest
    THEN {IF <<peer, epoch, iter>> \in net.local
          THEN RemoteOpinion(peer, epoch, iter)
          ELSE NodeOpinion_empty}
    ELSE {NodeOpinion(epoch, iter, F64(40), Garbage),
          NodeOpinion(epoch, iter, F64(20), ProofBy(PubKey(peer) + 1))}

\* a peer answers a request of the node
remote_answers(request) ==
    /\ request \in sent
    /\ request.kind = "Request::Opinion"
    /\ request.peer \in NodePeers \cap net.connected
    /\ net.arrived < MaxEvents
    /\ \E opinion \in RemoteAnswers(request.peer, request.epoch, request.iter) :
          Arrives(Response_Opinion(request.peer, request.epoch, request.iter, opinion))
    /\ sent' = sent \ {request}
    /\ net' = [net EXCEPT !.arrived = @ + 1]
    /\ UNCHANGED <<outer_interval, inner_interval, node>>
    /\ UNCHANGED <<set_vars, peer_vars>>

\* a response of the node reaches the peer it answers, or is lost
remote_receives ==
    /\ \E response \in sent :
          /\ response.kind \in {"Response::Opinion", "Response::Identify"}
          /\ sent' = sent \ {response}
    /\ UNCHANGED <<events, outer_interval, inner_interval, node, net>>
    /\ UNCHANGED <<set_vars, peer_vars>>

\* what the connected peers send unasked: both ask for an opinion, the first
\* identifies itself by a request and the last by a response
RemoteEvents ==
    {Request_Opinion(peer, ReqKey[1], ReqKey[2]) : peer \in NodePeers}
    \cup {Request_Identify(1, pk) : pk \in {PubKey(1), PubKey(1) + 1}}
    \cup {Response_Identify(NumPeers, pk) :
             pk \in {PubKey(NumPeers), PubKey(NumPeers) + 1}}
    \cup {OtherEvent(1)}

\* the requests the node may make: every peer, epoch and iteration
LoopRequests ==
    {Request_Opinion(peer, epoch, iter) :
        peer \in NodePeers, epoch \in 0..(MaxEpoch + 1), iter \in 0..(NumIters - 1)}

\* a node to which the two peers have connected
InitDispatch ==
    /\ EigenTrustSet_new
    /\ call = [op |-> "new", out |-> "ok", after |-> 0]
    /\ neighbors = [i \in NeighborSlots |->
                       IF i = 1 THEN 1 ELSE IF i = 2 THEN NumPeers ELSE None]
    /\ pubkeys = << >>
    /\ neighbor_scores = << >>
    /\ cached_neighbor_opinion = << >>
    /\ cached_local_opinion = << >>
    /\ pcall = [op |-> "new", out |-> "ok", after |-> 0]
    /\ Node_new
    /\ net = [connected |-> Peer_neighbors, over |-> FALSE, local |-> {}, epoch |-> 0,
              arrived |-> 0]

NextDispatch ==
    \/ select_next_some
    \/ send_epoch_requests(ReqKey[1], ReqKey[2])
    \/ \E peer \in Honest : calculate_local_opinion(peer, ReqKey[1], ReqKey[2])
    \/ \E event \in RemoteEvents : remote_sends(event)
    \/ \E peer \in Honest : remote_calculates(peer, MaxEpoch, NumIters - 1)
    \/ \E request \in LoopRequests : remote_answers(request)
    \/ remote_receives

SpecDispatch == InitDispatch /\ [][NextDispatch]_vars

\* --------------------------------------------- the node: connection events
\* a node that was just built, or one to which MAX_NEIGHBORS other peers
\* have connected
InitConnect ==
    /\ EigenTrustSet_new
    /\ call = [op |-> "new", out |-> "ok", after |-> 0]
    /\ neighbors \in {[i \in NeighborSlots |-> None],
                      [i \in NeighborSlots |-> Filler(i)]}
    /\ pubkeys = << >>
    /\ neighbor_scores = << >>
    /\ cached_neighbor_opinion = << >>
    /\ cached_local_opinion = << >>
    /\ pcall = [op |-> "new", out |-> "ok", after |-> 0]
    /\ Node_new
    /\ net = [connected |-> Peer_neighbors, over |-> FALSE, local |-> {}, epoch |-> 0,
              arrived |-> 0]

NextConnect ==
    \/ select_next_some
    \/ \E peer \in NodePeers : remote_connects(peer)
    \/ \E peer \in NodePeers \cup {Filler(1)} : remote_disconnects(peer)
    \/ \E event \in RemoteEvents : remote_sends(event)

SpecConnect == InitConnect /\ [][NextConnect]_vars

\* --------------------------------------------------- the node: main_loop
\* a loop that would take a tick or an event wherever it stands
AtSelect_anywhere == node.pc # "exited"

\* main_loop waits at its select!: the only point where it takes a tick or
\* an event
AtSelect == node.pc = "running"

\* an outer branch that goes on with the loop when the stream has ended
outer_branch_continue ==
    LET epoch_opt == Yield(outer_interval)
    IN  /\ IF epoch_opt # NoneTick
           THEN /\ outer_interval' = Yielded(outer_interval)
                /\ inner_interval' = create_iter(NumIters, TRUE)
                /\ node' = [Stepped("outer", epoch_opt, NoEvent, "ok")
                              EXCEPT !.fired = 0]
           ELSE /\ node' = Stepped("outer", NoneTick, NoEvent, "ok")
                /\ UNCHANGED <<outer_interval, inner_interval>>
        /\ UNCHANGED <<events, sent, net>>
        /\ UNCHANGED <<set_vars, peer_vars>>

\* the branch of the outer timer, lines 222-226: a tick starts an epoch and
\* arms the inner timer anew, the end of the stream breaks the loop
outer_branch ==
    LET epoch_opt == Yield(outer_interval)
    IN  /\ IF epoch_opt # NoneTick
           THEN /\ outer_interval' = Yielded(outer_interval)
                /\ inner_interval' = create_iter(NumIters, TRUE)
                /\ node' = [Stepped("outer", epoch_opt, NoEvent, "ok")
                              EXCEPT !.fired = 0]
           ELSE /\ node' = [Stepped("outer", NoneTick, NoEvent, "ok")
                              EXCEPT !.pc = "exited"]
                /\ UNCHANGED <<outer_interval, inner_interval>>
        /\ UNCHANGED <<events, sent, net>>
        /\ UNCHANGED <<set_vars, peer_vars>>

\* the branch of the inner timer, lines 228-238, up to the score: Some(iter)
\* starts the tick, which goes on in the two steps below; None does nothing
inner_branch ==
    LET iter_opt == Yield(inner_interval)
    IN  /\ IF iter_opt # NoneTick
           THEN /\ inner_interval' = Yielded(inner_interval)
                /\ node' = [Stepped("inner", iter_opt, NoEvent, "ok")
                              EXCEPT !.pc = "opinions",
                                     !.epoch = net.epoch,
                                     !.score = Peer_global_trust_score_at(
                                                   net.epoch, iter_opt),
                                     !.fired = @ + 1]
           ELSE /\ node' = Stepped("inner", NoneTick, NoEvent, "ok")
                /\ UNCHANGED inner_interval
        /\ UNCHANGED <<events, sent, outer_interval, net>>
        /\ UNCHANGED <<set_vars, peer_vars>>

\* the branch of the swarm, line 240
swarm_branch ==
    /\ events # << >>
    /\ handle_swarm_events(Head(events))
    /\ events' = Tail(events)
    /\ UNCHANGED <<outer_interval, inner_interval, net>>

\* a select! that takes any branch that is ready
main_loop_unbiased ==
    /\ AtSelect
    /\ \/ Ready(outer_interval) /\ outer_branch
       \/ Ready(inner_interval) /\ inner_branch
       \/ swarm_branch

\* one pass of the loop of main_loop: the biased select! takes the first
\* branch that is ready, the outer timer before the inner timer before the
\* swarm
main_loop ==
    /\ AtSelect
    /\ IF Ready(outer_interval)
       THEN outer_branch
       ELSE IF Ready(inner_interval)
       THEN inner_branch
       ELSE swarm_branch

\* the inner tick, lines 233-235: calculate_local_opinion for every neighbor
inner_tick_opinions ==
    /\ node.pc = "opinions"
    /\ cached_local_opinion' =
          Peer_calculate_local_opinion(Peer_neighbors, node.epoch, node.tick)
    /\ node' = [node EXCEPT !.pc = "requests"]
    /\ UNCHANGED <<neighbors, pubkeys, neighbor_scores, cached_neighbor_opinion, pcall>>
    /\ UNCHANGED <<events, sent, outer_interval, inner_interval, net>>
    /\ UNCHANGED set_vars

\* the inner tick, line 237: self.send_epoch_requests(epoch, iter)
inner_tick_requests ==
    /\ node.pc = "requests"
    /\ sent' = sent \cup epoch_requests(node.epoch, node.tick)
    /\ node' = [node EXCEPT !.pc = "running"]
    /\ UNCHANGED <<events, outer_interval, inner_interval, net>>
    /\ UNCHANGED <<set_vars, peer_vars>>

\* the next epoch begins: the outer timer has a tick. An epoch is long enough
\* for its iterations, so the inner timer has had all its ticks by then
epoch_interval_elapses ==
    /\ ~outer_interval.pending
    /\ outer_interval.next < outer_interval.limit
    /\ ~outer_interval.ready
    /\ inner_interval.pending \/ inner_interval.next >= inner_interval.limit
    /\ outer_interval' = [outer_interval EXCEPT !.ready = TRUE]
    /\ net' = [net EXCEPT !.epoch = @ + 1]
    /\ UNCHANGED <<events, sent, inner_interval, node>>
    /\ UNCHANGED <<set_vars, peer_vars>>

\* the time of the next iteration comes: the inner timer has a tick
iter_interval_elapses ==
    /\ ~inner_interval.pending
    /\ inner_interval.next < inner_interval.limit
    /\ ~inner_interval.ready
    /\ inner_interval' = [inner_interval EXCEPT !.ready = TRUE]
    /\ UNCHANGED <<events, sent, outer_interval, node, net>>
    /\ UNCHANGED <<set_vars, peer_vars>>

\* the swarm has an event that is only logged: as many of them as one likes
transport_event(peer) ==
    /\ Arrives(OtherEvent(peer))
    /\ UNCHANGED <<sent, outer_interval, inner_interval, node, net>>
    /\ UNCHANGED <<set_vars, peer_vars>>

\* main_loop(interval_limit) is entered by a node to which two peers have
\* connected and identified themselves; the honest one has its opinions
InitLoop ==
    /\ EigenTrustSet_new
    /\ call = [op |-> "new", out |-> "ok", after |-> 0]
    /\ neighbors = [i \in NeighborSlots |-> IF i = 1 THEN 1 ELSE IF i = 2 THEN NumPeers ELSE None]
    /\ pubkeys = [peer \in NodePeers |-> PubKey(peer)]
    /\ neighbor_scores = << >>
    /\ cached_neighbor_opinion = << >>
    /\ cached_local_opinion = << >>
    /\ pcall = [op |-> "new", out |-> "ok", after |-> 0]
    /\ events = << >>
    /\ sent = {}
    /\ \E interval_limit \in 0..(MaxEpoch + 1) :
          outer_interval = create_iter(interval_limit, FALSE)
    /\ inner_interval = Timer_pending
    /\ node = [pc |-> "running", branch |-> "none", tick |-> NoneTick,
               event |-> NoEvent, res |-> "ok", score |-> F64(0), epoch |-> 0,
               fired |-> 0, backlog |-> 0]
    /\ net = [connected |-> NodePeers, over |-> FALSE,
              local |-> {<<request.peer, request.epoch, request.iter>> :
                            request \in {r \in LoopRequests : r.peer \in Honest}},
              epoch |-> 0, arrived |-> 0]

NextLoop ==
    \/ main_loop
    \/ inner_tick_opinions
    \/ inner_tick_requests
    \/ epoch_interval_elapses
    \/ iter_interval_elapses
    \/ \E peer \in Honest : transport_event(peer)
    \/ \E request \in LoopRequests : remote_answers(request)

SpecLoop == InitLoop /\ [][NextLoop]_vars

\* time passes and the loop runs when it can, while the swarm has events
\* that are only logged
SpecLoopFair ==
    /\ InitLoop
    /\ [][\/ main_loop
          \/ inner_tick_opinions
          \/ inner_tick_requests
          \/ epoch_interval_elapses
          \/ iter_interval_elapses
          \/ \E peer \in NodePeers : transport_event(peer)]_vars
    /\ WF_vars(main_loop)
    /\ WF_vars(inner_tick_opinions)
    /\ WF_vars(inner_tick_requests)
    /\ WF_vars(epoch_interval_elapses)
    /\ WF_vars(iter_interval_elapses)

\* the loop runs when it can, whether time passes or not
SpecLoopBusy ==
    /\ SpecLoop
    /\ WF_vars(main_loop)
    /\ WF_vars(inner_tick_opinions)
    /\ WF_vars(inner_tick_requests)

\* ================================================================== claims
\* the key k is held by some slot of s
InSet(s, k) == \E i \in Slots : s[i][1] = k

\* the last call was a converge that returned
Converged == call.op = "converge" /\ call.out = "ok"

\* C1: after any calls of add_member and update_op that do not fail, the
\* non-default keys of set are pairwise distinct and every key of ops is a
\* key held by some slot of set.
C1_SetInvariants ==
    /\ \A i, j \in Slots :
          (i # j /\ set[i][1] # PK_NULL) => set[i][1] # set[j][1]
    /\ \A k \in DOMAIN ops : InSet(set, k)

\* C2: in every state reached through add_member, update_op and converge a
\* slot whose key is PK_NULL has score 0 and ops has no entry under PK_NULL.
C2_NoOpinionUnderNull ==
    /\ \A i \in Slots : set[i][1] = PK_NULL => set[i][2] = Fr_zero
    /\ PK_NULL \notin DOMAIN ops

\* C3: add_member(pk) fails on its membership assertion when pk is already
\* in set and on the missing vacant slot when pk is new and the set is full;
\* either way set and ops are what they were before the call.
C3_AddMemberFails ==
    [][ call'.op = "add_member" =>
          LET pk == call'.pk
              full == \A i \in Slots : set[i][1] # PK_NULL
          IN  /\ InSet(set, pk) => call'.out = "panic_assert"
              /\ (~InSet(set, pk) /\ full) => call'.out = "panic_unwrap"
              /\ call'.out # "ok" => (set' = set /\ ops' = ops) ]_vars

C3_Witness ==
    /\ call.op = "add_member"
    /\ call.out = "panic_unwrap"
    /\ ~InSet(set, call.pk)
    /\ \A i \in Slots : set[i][1] # PK_NULL
    /\ DOMAIN ops # {}

\* C4: a successful add_member(pk) writes (pk, INITIAL_SCORE) into the
\* lowest-index slot whose key is PK_NULL; every other slot and the whole of
\* ops are unchanged.
C4_AddMemberFrame ==
    [][ (call'.op = "add_member" /\ call'.out = "ok") =>
          \E i \in Slots :
              /\ set[i][1] = PK_NULL
              /\ \A k \in 1..(i - 1) : set[k][1] # PK_NULL
              /\ set'[i] = <<call'.pk, INITIAL_SCORE % FieldModulus>>
              /\ \A k \in Slots \ {i} : set'[k] = set[k]
              /\ ops' = ops ]_vars

\* a member added into a hole that converge left below a live slot
C4_Witness ==
    /\ call.op = "add_member"
    /\ call.out = "ok"
    /\ call.after = 1
    /\ \E i, k \in Slots :
          /\ i < k
          /\ set[i] = <<call.pk, INITIAL_SCORE % FieldModulus>>
          /\ set[k][1] # PK_NULL
    /\ DOMAIN ops # {}

C6_MissingOpinionNullifies ==
    (call.op = "converge" /\
     \E i \in Slots : /\ call.pre_set[i][1] # PK_NULL
                      /\ call.pre_set[i][1] \notin DOMAIN call.pre_ops)
    => /\ call.out = "ok"
       /\ \A i \in Slots :
             (/\ call.pre_set[i][1] # PK_NULL
              /\ call.pre_set[i][1] \notin DOMAIN call.pre_ops)
             => (set[i] = <<PK_NULL, Fr_zero>> /\ call.ret[i] = Fr_zero)

\* C7: the filter of converge is idempotent: applied to the set and ops it
\* has produced, it completes and leaves both exactly as they are.
C7_FilterIdempotent ==
    Converged =>
        LET again == Filtered(set, ops)
        IN  again.out = "ok" /\ again.set = set /\ again.ops = ops

\* C8: after the filter of converge, the opinion of the member that slot i
\* held gives score 0 at index i.
C8_NoSelfScore ==
    Converged =>
        \A i \in Slots :
            LET pk == call.pre_set[i][1]
            IN  (pk # PK_NULL /\ pk \in DOMAIN call.pre_ops)
                => ops[pk].scores[i][2] = Fr_zero

\* a member that scored itself and others, and stays live without its own score
C8_Witness ==
    /\ Converged
    /\ \E i \in Slots :
          LET pk == call.pre_set[i][1]
          IN  /\ pk # PK_NULL
              /\ call.pre_ops[pk].scores[i] = <<pk, INITIAL_SCORE % FieldModulus>>
              /\ set[i][1] = pk
              /\ ops[pk].scores[i] = <<pk, Fr_zero>>

\* C9: a slot that the filter nullifies has score 0 in the initial vector
\* and in the vector after each of the NUM_ITERATIONS rounds.
C9_NullifiedSlotStaysZero ==
    Converged =>
        \A i \in Slots :
            (call.pre_set[i][1] # PK_NULL /\ set[i][1] = PK_NULL)
            => \A t \in 0..NUM_ITERATIONS : call.s[t + 1][i] = Fr_zero

\* two members, in slots 1 and 2, whose opinions give INITIAL_SCORE to the
\* other one and nothing else, were what the last converge started from
SymmetricPair ==
    /\ Converged
    /\ \A i \in Slots : (call.pre_set[i][1] # PK_NULL) <=> (i \in {1, 2})
    /\ DOMAIN call.pre_ops = {call.pre_set[1][1], call.pre_set[2][1]}
    /\ \A i \in {1, 2} :
          LET sc == call.pre_ops[call.pre_set[i][1]].scores
          IN  /\ sc[3 - i] = <<call.pre_set[3 - i][1], INITIAL_SCORE % FieldModulus>>
              /\ \A j \in Slots \ {3 - i} : sc[j][2] = 0

\* b to the power e in the field
RECURSIVE FrPow(_, _)
FrPow(b, e) == IF e = 0 THEN 1 ELSE (FrPow(b, e - 1) * (b % FieldModulus)) % FieldModulus

C13_LiveOnlyByAdmittedPeer ==
    Converged =>
        \A i \in Slots :
            (call.pre_set[i][1] # PK_NULL /\ set[i][1] # PK_NULL)
            => \E j \in Slots \ {i} :
                   LET sc == call.pre_ops[call.pre_set[i][1]].scores[j]
                   IN  /\ sc[2] # 0
                       /\ sc[1] # PK_NULL
                       /\ call.pre_set[j][1] = sc[1]

\* C14: in every reachable state, the one left by a converge that nullified
\* slots included, every key of ops is held by some slot of set.
C14_OpsKeysInSet ==
    \A k \in DOMAIN ops : \E i \in Slots : set[i][1] = k

\* C15: every opinion held in ops under the key of a member carries the
\* message hash of its scores and a signature that verifies under that key.
C15_OpinionsAuthentic ==
    \A k \in (DOMAIN ops) \ {PK_NULL} :
        /\ ops[k].message_hash = calculate_message_hash(ops[k].scores)
        /\ verify(ops[k].sig, k, ops[k].message_hash)

\* the reference power iteration on the set and ops that the filter left:
\* the score that slot i gives to index j, nothing for a PK_NULL slot
RefScore(i, j) ==
    IF set[i][1] = PK_NULL THEN 0 ELSE ops[set[i][1]].scores[j][2]

RECURSIVE RefSum(_, _, _)
RefSum(prev, j, n) ==
    IF n = 0 THEN 0
    ELSE (((prev[n] * RefScore(n, j)) % FieldModulus) + RefSum(prev, j, n - 1))
         % FieldModulus

RECURSIVE RefVector(_)
RefVector(t) ==
    IF t = 0 THEN [i \in Slots |-> set[i][2]]
    ELSE LET prev == RefVector(t - 1) \o << >>
         IN  [j \in Slots |-> RefSum(prev, j, NUM_NEIGHBOURS)]

\* the three members and three opinions of test_add_three_members_with_opinions
\* were what the last converge started from
ThreeMembers ==
    /\ Converged
    /\ call.pre_set = FilledSet(3)
    /\ DOMAIN call.pre_ops = {1, 2, 3}
    /\ \A k \in 1..3 : \A j \in Slots :
          call.pre_ops[k].scores[j] = <<ThreePks[j], ThreeScores[k][j]>>

\* C12: whenever converge completes, the vector it returns is the reference
\* power iteration after NUM_ITERATIONS rounds; for the three members of the
\* test no slot is nullified and the iteration starts from 1000, 1000, 1000.
C12_ReferenceIteration ==
    /\ Converged => call.ret = RefVector(NUM_ITERATIONS) \o << >>
    /\ ThreeMembers =>
          /\ set = call.pre_set
          /\ call.s[1] = <<1000, 1000, 1000, 0, 0, 0>>

\* C16: add_neighbor(pid) puts pid in the lowest-index vacant slot; for a pid
\* already present it returns Ok and changes nothing, so no PeerId occupies
\* two slots; when every slot holds another peer it returns
\* MaxNeighboursReached and leaves neighbors unchanged.
C16_AddNeighbor ==
    /\ LET taken == {i \in NeighborSlots : neighbors[i] # None}
       IN  Cardinality({neighbors[i] : i \in taken}) = Cardinality(taken)
    /\ pcall.op = "add_neighbor" =>
          LET pre == pcall.pre
              pid == pcall.peer_id
          IN  IF \E i \in NeighborSlots : pre[i] = pid
              THEN pcall.out = "ok" /\ neighbors = pre
              ELSE IF \E i \in NeighborSlots : pre[i] = None
              THEN /\ pcall.out = "ok"
                   /\ \E i \in NeighborSlots :
                         /\ pre[i] = None
                         /\ \A k \in 1..(i - 1) : pre[k] # None
                         /\ neighbors[i] = pid
                         /\ \A k \in NeighborSlots \ {i} : neighbors[k] = pre[k]
              ELSE pcall.out = "MaxNeighboursReached" /\ neighbors = pre

\* add_neighbor was refused because every slot held another peer
C16_Witness ==
    /\ pcall.op = "add_neighbor"
    /\ pcall.out = "MaxNeighboursReached"
    /\ \A i \in NeighborSlots : neighbors[i] \notin {None, pcall.peer_id}

\* what every remove_neighbor does to the slots
RemoveClearsSlot ==
    /\ \A i \in NeighborSlots :
          neighbors[i] = IF pcall.pre[i] = pcall.peer_id THEN None ELSE pcall.pre[i]
    /\ (\A i \in NeighborSlots : pcall.pre[i] # pcall.peer_id)
          => neighbors = pcall.pre

\* C17 as stated: remove_neighbor(pid) clears exactly the slot holding pid,
\* is a no-op when pid is absent, leaves the other neighbors at their
\* indices, and after add_neighbor(pid) followed by remove_neighbor(pid)
\* neighbors is what it was before the add.
C17_RemoveNeighborRoundTrip ==
    pcall.op = "remove_neighbor" =>
        /\ RemoveClearsSlot
        /\ pcall.added => neighbors = pcall.before_add

\* C17 amended: the same, the round trip only for a pid that was not a
\* neighbor before add_neighbor(pid).
C17_RemoveNeighbor ==
    pcall.op = "remove_neighbor" =>
        /\ RemoveClearsSlot
        /\ (/\ pcall.added
            /\ \A i \in NeighborSlots : pcall.before_add[i] # pcall.peer_id)
              => neighbors = pcall.before_add

\* remove_neighbor(pid) followed an add_neighbor(pid) that had put pid in a
\* slot with neighbors on both sides
C17_Witness ==
    /\ pcall.op = "remove_neighbor"
    /\ pcall.added
    /\ \A i \in NeighborSlots : pcall.before_add[i] # pcall.peer_id
    /\ \E i \in NeighborSlots :
          /\ pcall.pre[i] = pcall.peer_id
          /\ neighbors[i] = None
          /\ \E k \in 1..(i - 1) : neighbors[k] # None
          /\ \E k \in (i + 1)..MAX_NEIGHBORS : neighbors[k] # None

\* what a cache holds under key, the empty opinion when it holds nothing
Held(cache, key) ==
    IF key \in DOMAIN cache
    THEN cache[key]
    ELSE [k |-> 0, sig |-> SigData_empty, op |-> 0, proof_bytes |-> NoProof]

\* cache' is cache with opinion stored under key and nothing else changed
Stored(cache, cache_next, key, opinion) ==
    /\ DOMAIN cache_next = (DOMAIN cache) \cup {key}
    /\ cache_next[key] = opinion
    /\ \A x \in (DOMAIN cache) \ {key} : cache_next[x] = cache[x]

\* every get returns what its own cache holds under the key
GetReturnsHeld ==
    /\ pcall.op = "get_local_opinion"
          => pcall.ret = Held(cached_local_opinion, pcall.key)
    /\ pcall.op = "get_neighbor_opinion"
          => pcall.ret = Held(cached_neighbor_opinion, pcall.key)

\* a cache changes only by its own cache call, which stores the opinion
\* under the key
CacheStep ==
    /\ IF pcall'.op = "cache_local_opinion"
       THEN Stored(cached_local_opinion, cached_local_opinion', pcall'.key, pcall'.arg)
       ELSE cached_local_opinion' = cached_local_opinion
    /\ IF pcall'.op = "cache_neighbor_opinion"
       THEN Stored(cached_neighbor_opinion, cached_neighbor_opinion',
                   pcall'.key, pcall'.arg)
       ELSE cached_neighbor_opinion' = cached_neighbor_opinion

\* C18: get_local_opinion(key) and get_neighbor_opinion(key) return the
\* opinion most recently cached under key by cache_local_opinion and
\* cache_neighbor_opinion respectively, the empty opinion when nothing was
\* cached under key, and caching into one cache never changes what the other
\* returns.
C18_CachesIndependent == [](GetReturnsHeld) /\ [][CacheStep]_vars

\* get_local_opinion returned the opinion cached under a key under which the
\* neighbor cache holds another opinion
C18_Witness ==
    /\ pcall.op = "get_local_opinion"
    /\ pcall.key \in DOMAIN cached_local_opinion
    /\ pcall.key \in DOMAIN cached_neighbor_opinion
    /\ cached_neighbor_opinion[pcall.key] # cached_local_opinion[pcall.key]
    /\ pcall.ret = cached_local_opinion[pcall.key]

\* the value that the opinion cached for peer at epoch e contributes: its op
\* when it verifies against the public key recorded for the peer, 0 when it
\* is missing or does not verify
VerifiedValue(peer, e) ==
    IF /\ <<peer, e>> \in DOMAIN cached_neighbor_opinion
       /\ peer \in DOMAIN pubkeys
       /\ cached_neighbor_opinion[<<peer, e>>].proof_bytes = <<"proof", pubkeys[peer]>>
    THEN cached_neighbor_opinion[<<peer, e>>].op
    ELSE 0

\* the sum of those values over the peers in the neighbor slots
VerifiedSum(e) ==
    LET values == [i \in NeighborSlots |->
                      IF neighbors[i] = None THEN 0
                      ELSE VerifiedValue(neighbors[i], e)] \o << >>
    IN  range_sum(values, 1, MAX_NEIGHBORS)

\* C19: global_trust_score_at(e) returns the sum, over the peers in the
\* neighbor slots, of the value of the opinion cached for that neighbor at e
\* when it verifies and 0 when it is missing or does not verify; opinions
\* cached for peers that are not neighbors contribute nothing.
C19_GlobalTrustScore ==
    pcall.op = "global_trust_score_at" =>
        /\ pcall.out = "ok"
        /\ pcall.ret = VerifiedSum(pcall.at)

\* C20: get_neighbor_opinions_at, global_trust_score_at and
\* calculate_local_opinions complete whatever the neighbors' opinions and
\* public keys are: a failed or erroring verification and a neighbor without
\* a recorded public key never abort the call.
C20_NoCryptoFailureAborts ==
    pcall.op \in {"get_neighbor_opinions_at", "global_trust_score_at",
                  "calculate_local_opinions"}
        => pcall.out = "ok"

\* what the node's peer holds for a key of a cache: the opinion stored, or the
\* empty one
HeldAt(cache, key) == IF key \in DOMAIN cache THEN cache[key] ELSE NodeOpinion_empty

\* the opinion verifies under the key its sender was identified with
Verifies(peer, opinion) ==
    /\ peer \in DOMAIN pubkeys
    /\ PeerOpinion_verify(opinion, pubkeys[peer]) = [out |-> "ok", res |-> TRUE]

\* the step takes the event at the head of the queue to handle_swarm_events
Handles(kind) ==
    /\ events # << >>
    /\ Head(events).kind = kind
    /\ events' = Tail(events)

\* C21: an opinion received in a Response::Opinion is verified before it is
\* stored: every opinion present in the neighbor-opinion cache verifies under
\* the key of the peer it is stored for.
C21_OnlyVerifiedCached ==
    \A key \in DOMAIN cached_neighbor_opinion :
        Verifies(key[1], cached_neighbor_opinion[key])

\* C22: a Request::Opinion(epoch, iter) from p is answered with the local
\* opinion cached under (p, epoch, iter), or the empty opinion, and changes
\* nothing of the peer; and once the response of a peer that runs this code
\* has been handled, the neighbor-opinion cache holds for (responder, epoch,
\* iter) the opinion the responder answered with.
C22_AnswerStep ==
    Handles("Request::Opinion") =>
        LET request == Head(events)
            answer == Response_Opinion(
                          request.peer, request.epoch, request.iter,
                          HeldAt(cached_local_opinion,
                                 <<request.peer, request.epoch, request.iter>>))
        IN  /\ UNCHANGED peer_vars
            /\ sent' \in {sent, sent \cup {answer}}
            /\ node'.res = "ok" => answer \in sent'

C22_Delivered ==
    (/\ node.branch = "swarm"
     /\ node.event.kind = "Response::Opinion"
     /\ node.event.peer \in Honest)
    => HeldAt(cached_neighbor_opinion,
              <<node.event.peer, node.event.epoch, node.event.iter>>)
       = node.event.opinion

C22_RequestOpinionRoundTrip == [](C22_Delivered) /\ [][C22_AnswerStep]_vars

\* a response of the honest peer carrying its computed opinion was handled,
\* and a request of a peer was answered with the opinion cached for it
C22_Witness ==
    /\ node.branch = "swarm"
    /\ node.event.kind = "Request::Opinion"
    /\ node.res = "ok"
    /\ <<node.event.peer, node.event.epoch, node.event.iter>>
          \in DOMAIN cached_local_opinion
    /\ \E key \in DOMAIN cached_neighbor_opinion :
          /\ key[1] \in Honest
          /\ cached_neighbor_opinion[key] = RemoteOpinion(key[1], key[2], key[3])

\* C23: an identify request or response from p records its key as p's, a
\* request is answered with the node's own key, a later one overwrites an
\* earlier one, and the key of no other peer changes.
C23_IdentifyStep ==
    /\ (Handles("Request::Identify") \/ Handles("Response::Identify")) =>
          LET event == Head(events)
          IN  /\ DOMAIN pubkeys' = DOMAIN pubkeys \cup {event.peer}
              /\ pubkeys'[event.peer] = event.pub_key
              /\ \A other \in DOMAIN pubkeys \ {event.peer} :
                    pubkeys'[other] = pubkeys[other]
    /\ Handles("Request::Identify") =>
          /\ sent' \subseteq sent \cup {Response_Identify(Head(events).peer, OwnPubKey)}
          /\ node'.res = "ok" => Response_Identify(Head(events).peer, OwnPubKey) \in sent'
    /\ Handles("Response::Identify") => sent' = sent

C23_Identify == [][C23_IdentifyStep]_vars

\* both peers are identified, the first one by its second identification,
\* which was answered
C23_Witness ==
    /\ node.branch = "swarm"
    /\ node.event.kind = "Request::Identify"
    /\ net.arrived = 2
    /\ DOMAIN pubkeys = NodePeers
    /\ pubkeys[1] = node.event.pub_key
    /\ Response_Identify(1, OwnPubKey) \in sent

\* no connection event waits to be handled
ConnectionsHandled ==
    \A i \in 1..Len(events) :
        events[i].kind \notin {"ConnectionEstablished", "ConnectionClosed"}

\* C24: ConnectionEstablished adds the peer to the neighbors and
\* ConnectionClosed removes it; while no more than MAX_NEIGHBORS peers have
\* been connected at a time, the neighbors are exactly the connected peers
\* once their events are handled; an add_neighbor that fails for want of a
\* slot leaves the peer as it was and the node running.
C24_ConnectedAreNeighbors ==
    (ConnectionsHandled /\ ~net.over) => Peer_neighbors = net.connected

C24_ConnectionStep ==
    /\ Handles("ConnectionEstablished") =>
          IF \/ Head(events).peer \in Peer_neighbors
             \/ \E i \in NeighborSlots : neighbors[i] = None
          THEN /\ Peer_neighbors' = Peer_neighbors \cup {Head(events).peer}
               /\ node'.res = "ok"
          ELSE /\ UNCHANGED peer_vars
               /\ node'.res = "MaxNeighboursReached"
               /\ node'.pc = node.pc
    /\ Handles("ConnectionClosed") =>
          Peer_neighbors' = Peer_neighbors \ {Head(events).peer}

C24_Connections == [](C24_ConnectedAreNeighbors) /\ [][C24_ConnectionStep]_vars

\* all slots were taken, a neighbor left and a peer that connected then has
\* its slot
C24_Witness ==
    /\ node.event = ConnectionEstablished(1)
    /\ ~net.over
    /\ events = << >>
    /\ neighbors[1] = 1
    /\ neighbors[MAX_NEIGHBORS] = Filler(MAX_NEIGHBORS)
    /\ Filler(1) \notin net.connected

\* the step is one of main_loop at its select!: it takes a tick of a timer,
\* or the end of its stream, or an event of the swarm
SelectStep ==
    /\ AtSelect
    /\ \/ node' # node
       \/ outer_interval'.next # outer_interval.next
       \/ inner_interval'.next # inner_interval.next
       \/ events # << >> /\ events' = Tail(events)

\* C25: the select! is biased, outer timer before inner timer before swarm:
\* whenever the outer timer is ready at a select its branch is taken, so no
\* backlog of swarm events delays the start of an epoch past the next select;
\* and a swarm event is taken only when neither timer is ready.
C25_SelectStep ==
    SelectStep =>
        /\ Ready(outer_interval) =>
              /\ node'.branch = "outer"
              /\ events' = events
              /\ \/ /\ outer_interval'.next = outer_interval.next + 1
                    /\ inner_interval' = create_iter(NumIters, TRUE)
                 \/ node'.pc = "exited"
        /\ (~Ready(outer_interval) /\ Ready(inner_interval)) =>
              /\ node'.branch = "inner"
              /\ events' = events
        /\ (~Ready(outer_interval) /\ ~Ready(inner_interval)) =>
              /\ node'.branch = "swarm"
              /\ events' = Tail(events)

C25_BiasedSelect == [][C25_SelectStep]_vars

\* an epoch was started at a select at which a swarm event was waiting
C25_Witness ==
    /\ node.branch = "outer"
    /\ node.tick # NoneTick
    /\ node.backlog > 0
    /\ inner_interval = create_iter(NumIters, TRUE)

\* the step ends an epoch that an outer tick started: by the next outer tick
\* or by leaving the loop
EpochEnds ==
    /\ SelectStep
    /\ outer_interval.next > 0
    /\ node'.branch = "outer"
    /\ node'.pc = "exited" \/ outer_interval'.next # outer_interval.next

\* C26: every epoch started by an outer tick, the last one allowed by
\* interval_limit included, has its inner ticks 0..NUM_ITERATIONS-1 fired in
\* increasing order before the next epoch starts or the loop is left.
C26_EpochStep ==
    /\ EpochEnds => node.fired = NumIters
    /\ (SelectStep /\ node'.branch = "inner" /\ node'.tick # NoneTick) =>
          node'.tick = node.fired

C26_EpochsComplete == [][C26_EpochStep]_vars

\* C27: main_loop(interval_limit) ends: the outer timer has interval_limit
\* ticks and then the loop is left, whatever events the swarm has; the loop is
\* not left before.
C27_Terminates ==
    /\ <>(node.pc = "exited")
    /\ [](node.pc = "exited" =>
             /\ outer_interval.next = outer_interval.limit
             /\ node.branch = "outer"
             /\ node.tick = NoneTick)

\* the loop was left after its last epoch was started, with a swarm event
\* waiting
C27_Witness ==
    /\ node.pc = "exited"
    /\ outer_interval.limit = MaxEpoch + 1
    /\ outer_interval.next = MaxEpoch + 1
    /\ node.backlog > 0

\* C28: a Response::Opinion for (epoch, iter) that arrives after the inner
\* tick of that iteration has run is stored in the neighbor-opinion cache,
\* and storing it changes no local opinion computed before.
C28_ResponseStep ==
    Handles("Response::Opinion") =>
        LET event == Head(events)
            key == <<event.peer, event.opinion.epoch, event.opinion.iter>>
        IN  /\ key \in DOMAIN cached_neighbor_opinion'
            /\ cached_neighbor_opinion'[key] = event.opinion
            /\ cached_local_opinion' = cached_local_opinion

C28_LateResponseStored == [][C28_ResponseStep]_vars

\* the response to a request of an inner tick was handled after that tick
\* had computed its local opinions
C28_Witness ==
    /\ node.branch = "swarm"
    /\ node.event.kind = "Response::Opinion"
    /\ <<node.event.peer, node.event.epoch, node.event.iter>>
          \in DOMAIN cached_local_opinion
    /\ cached_neighbor_opinion[<<node.event.peer, node.event.epoch, node.event.iter>>]
          = node.event.opinion

\* the sum over the neighbors of their opinions at (epoch, iter) that verify
RECURSIVE VerifiedScore(_, _, _)
VerifiedScore(peers, epoch, iter) ==
    IF peers = {}
    THEN F64(0)
    ELSE LET peer == CHOOSE p \in peers : TRUE
             opinion == HeldAt(cached_neighbor_opinion, <<peer, epoch, iter>>)
         IN  (IF Verifies(peer, opinion) THEN opinion.op ELSE F64(0))
             + VerifiedScore(peers \ {peer}, epoch, iter)

\* no event is taken from the swarm and nothing changes that an event changes
NothingDispatched ==
    /\ Len(events') >= Len(events)
    /\ UNCHANGED <<neighbors, pubkeys, cached_neighbor_opinion>>

\* C29: an inner tick runs in order and to its end before anything else is
\* taken: the global trust score from the neighbor opinions cached so far,
\* then calculate_local_opinion for every neighbor, then Request::Opinion to
\* every neighbor; no swarm event is dispatched in between.
C29_TickStep ==
    /\ (SelectStep /\ node'.branch = "inner" /\ node'.tick # NoneTick) =>
          /\ node'.pc = "opinions"
          /\ node'.epoch = net.epoch
          /\ node'.score = VerifiedScore(Peer_neighbors, net.epoch, node'.tick)
          /\ UNCHANGED <<cached_local_opinion, sent>>
          /\ NothingDispatched
    /\ node.pc = "opinions" =>
          /\ NothingDispatched
          /\ sent' \subseteq sent
          /\ node' \in {node, [node EXCEPT !.pc = "requests"]}
          /\ node'.pc = "requests" =>
                \A peer \in Peer_neighbors :
                    <<peer, node.epoch, node.tick>> \in DOMAIN cached_local_opinion'
          /\ node'.pc = "opinions" => UNCHANGED cached_local_opinion
    /\ node.pc = "requests" =>
          /\ NothingDispatched
          /\ UNCHANGED cached_local_opinion
          /\ node' \in {node, [node EXCEPT !.pc = "running"]}
          /\ node'.pc = "running" =>
                /\ epoch_requests(node.epoch, node.tick) \subseteq sent'
                /\ sent' \subseteq sent \cup epoch_requests(node.epoch, node.tick)

C29_InnerTickRuns == [][C29_TickStep]_vars

\* the last tick of an epoch has run to its end with an event waiting and
\* the answer to an earlier tick cached
C29_Witness ==
    /\ node.pc = "running"
    /\ node.branch = "inner"
    /\ node.tick = NumIters - 1
    /\ events # << >>
    /\ cached_neighbor_opinion # << >>
    /\ \A peer \in Peer_neighbors :
          /\ <<peer, node.epoch, node.tick>> \in DOMAIN cached_local_opinion
          /\ Request_Opinion(peer, node.epoch, node.tick) \in sent

\* the inner timer has had all its ticks
InnerEnded == ~inner_interval.pending /\ inner_interval.next >= inner_interval.limit

\* a swarm event waits at a select between the last inner tick of an epoch
\* and the next outer tick
WaitsBetweenEpochs ==
    /\ AtSelect
    /\ InnerEnded
    /\ ~Ready(outer_interval)
    /\ events # << >>

\* C30: after the inner tick NUM_ITERATIONS-1 the inner timer is disarmed:
\* until the next outer tick it does not win the select again, and every
\* swarm event that is ready in that interval is handled.
C30_DisarmedStep == (SelectStep /\ InnerEnded) => node'.branch # "inner"

C30_InnerDisarmed ==
    /\ [][C30_DisarmedStep]_vars
    /\ WaitsBetweenEpochs ~> (events = << >> \/ Ready(outer_interval))

\* converge was called on a set in which some live slot's key has no opinion
MissingOpinion ==
    /\ call.op = "converge"
    /\ \E i \in Slots : /\ call.pre_set[i][1] # PK_NULL
                        /\ call.pre_set[i][1] \notin DOMAIN call.pre_ops

C32_IndicesStable ==
    call.op = "converge" =>
        \A i \in Slots : \/ set[i][1] = call.pre_set[i][1]
                         \/ set[i][1] = PK_NULL

\* converge has completed, has nullified the slot of a member and has left a
\* member live at a later index
C32_Witness ==
    /\ call.op = "converge"
    /\ call.out = "ok"
    /\ \E i, j \in Slots :
          /\ i < j
          /\ call.pre_set[i][1] # PK_NULL
          /\ set[i][1] = PK_NULL
          /\ set[j][1] # PK_NULL
          /\ set[j] = call.pre_set[j]

\* the peers in the neighbor slots
CurrentNeighbors == {neighbors[i] : i \in NeighborSlots} \ {None}

\* the local score given to a peer, 0 when none was set
LocalScore(n) == IF n \in DOMAIN neighbor_scores THEN neighbor_scores[n] ELSE 0

\* the sum of the local scores of the current neighbors
RECURSIVE LocalScoreSum(_)
LocalScoreSum(peers) ==
    IF peers = {} THEN 0
    ELSE LET n == CHOOSE x \in peers : TRUE
         IN  LocalScore(n) + LocalScoreSum(peers \ {n})

\* the step is a call of calculate_local_opinions
CalculatesLocalOpinions ==
    /\ pcall' # pcall
    /\ pcall'.op = "calculate_local_opinions"

\* what the claim says of a call calculate_local_opinions(k)
LocalOpinionsCached(k) ==
    LET keys == {<<n, k + 1>> : n \in CurrentNeighbors}
    IN  /\ \A n \in CurrentNeighbors :
              /\ <<n, k + 1>> \in DOMAIN cached_local_opinion'
              /\ cached_local_opinion'[<<n, k + 1>>].op =
                     F64_mul(F64_div(F64(LocalScore(n) * 100),
                                     F64(LocalScoreSum(CurrentNeighbors) * 100)),
                             VerifiedSum(k))
        /\ DOMAIN cached_local_opinion' = (DOMAIN cached_local_opinion) \cup keys
        /\ \A key \in (DOMAIN cached_local_opinion) \ keys :
              cached_local_opinion'[key] = cached_local_opinion[key]
        /\ cached_neighbor_opinion' = cached_neighbor_opinion

C33_LocalOpinionsStep == CalculatesLocalOpinions => LocalOpinionsCached(pcall'.k)

\* C33: calculate_local_opinions(k) caches for every current neighbor n a
\* local opinion under (n, k.next()) whose value is (local score of n / sum
\* of the local scores of the current neighbors) * global_trust_score_at(k),
\* and leaves the entries of other keys and the neighbor-opinion cache as
\* they are.
C33_LocalOpinions == [][C33_LocalOpinionsStep]_vars

====
